---- MODULE Spec2Model ----
(***************************************************************************)
(* SecretSantaJS: the weighted sampler (src/Hat.js), the per-participant   *)
(* statistics (class SecretSantaParticipant) and the group-level draw      *)
(* (src/SecretSanta.js).                                                   *)
(*                                                                         *)
(* Positions are 0-based as in the JavaScript source; TLA+ sequences are   *)
(* 1-based, so element i of the source is elements[i + 1] here.            *)
(* Math.random() * size is a real number r in [0, size).  The binary       *)
(* search only compares r with integer cumulative weights, so r is kept    *)
(* as the integer r2 = 2 * r (integers and half-integers), and one         *)
(* representative per comparison class is enumerated (RandomPoints).       *)
(***************************************************************************)
EXTENDS Integers, Sequences, FiniteSets, TLC

\* ------------------------------------------------------------------ bounds
MaxHatSteps == 5
MaxDraws == 2
MaxOps == 4

\* Ceiling of the average weight, Hat.set and normalizeWeights.
WeightCeiling == 9999

Names == {"a", "b", "c"}
\* The names of a single draw of up to four.
DrawNames == Names \cup {"d"}
HatIds == {"a", "b", "c"}
HatWeights == {1, 3, 9999, 19997, 100000}
\* Hat.scale(factor), factor = num / den; 1/10 is the factor Hat.set uses.
HatFactors == {<<1, 10>>, <<1, 2>>, <<2, 1>>}

\* ----------------------------------------------------------- arithmetic
\* Math.ceil(a / b) for integers a >= 0, b > 0.
CeilDiv(a, b) == (a + b - 1) \div b

\* Math.round(a / b) for integers a >= 0, b > 0 (halves round up).
RoundDiv(a, b) == (2 * a + b) \div (2 * b)

Min(S) == CHOOSE x \in S : \A y \in S : x <= y

Max(S) == CHOOSE x \in S : \A y \in S : x >= y

Range(s) == {s[k] : k \in DOMAIN s}

EmptyMap == [x \in {} |-> 0]

\* Map.prototype.set
MapSet(m, k, v) == [x \in DOMAIN m \cup {k} |-> IF x = k THEN v ELSE m[x]]

\* Map.prototype.delete
MapDelete(m, k) == [x \in DOMAIN m \ {k} |-> m[x]]

\* ------------------------------------------------------------------ Hat
EmptyHat == [size |-> 0, elements |-> <<>>, index |-> EmptyMap]

HatHas(h, id) == id \in DOMAIN h.index

RECURSIVE SumWeights(_, _)
\* The running sum of the weights of elements 0 .. k-1.
SumWeights(elems, k) ==
    IF k = 0 THEN 0 ELSE SumWeights(elems, k - 1) + elems[k].weight

HatScale(h, num, den) ==
    LET ws == [k \in DOMAIN h.elements |->
                  [weight |-> CeilDiv(h.elements[k].weight * num, den)]]
    IN [size |-> SumWeights(ws, Len(h.elements)),
        elements |-> [k \in DOMAIN h.elements |->
                        [id |-> h.elements[k].id,
                         weight |-> ws[k].weight,
                         cumulativeWeight |-> SumWeights(ws, k)]],
        index |-> h.index]

\* The loop of Hat.set as an if: scale(1 / 10) at most once.
HatSetLoopOnce(h) ==
    IF h.size > WeightCeiling * Len(h.elements)
    THEN HatScale(h, 1, 10)
    ELSE h

RECURSIVE HatSetLoop(_)
\* while (this.size > 9999 * this.elements.length) this.scale(1 / 10)
HatSetLoop(h) ==
    IF h.size > WeightCeiling * Len(h.elements)
    THEN HatSetLoop(HatScale(h, 1, 10))
    ELSE h

\* Hat.set past its duplicate check (the caller tests HatHas).
HatSet(h, id, weight) ==
    LET size == h.size + weight
    IN HatSetLoop([size |-> size,
                   elements |-> Append(h.elements,
                       [id |-> id, weight |-> weight, cumulativeWeight |-> size]),
                   index |-> MapSet(h.index, id, Len(h.elements))])

\* Hat.delete that keeps the stale cumulative weights after the splice.
HatDeleteStale(h, id) ==
    IF Len(h.elements) = 1 THEN EmptyHat
    ELSE LET idIndex == h.index[id]
             spliced == [k \in 1 .. Len(h.elements) - 1 |->
                           IF k - 1 < idIndex THEN h.elements[k]
                           ELSE h.elements[k + 1]]
         IN [size |-> SumWeights(spliced, Len(spliced)),
             elements |-> spliced,
             index |-> MapDelete(h.index, id)]

\* Hat.delete that rebuilds the cumulative weights and leaves the positions
\* of the elements behind the deleted one as they were in the index.
HatDeleteNoReindex(h, id) ==
    IF Len(h.elements) = 1 THEN EmptyHat
    ELSE LET idIndex == h.index[id]
             spliced == [k \in 1 .. Len(h.elements) - 1 |->
                           IF k - 1 < idIndex THEN h.elements[k]
                           ELSE h.elements[k + 1]]
             n == Len(spliced)
         IN [size |-> SumWeights(spliced, n),
             elements |-> [k \in 1 .. n |->
                             [spliced[k] EXCEPT
                                !.cumulativeWeight = SumWeights(spliced, k)]],
             index |-> MapDelete(h.index, id)]

\* Hat.delete past its existence check (the caller tests HatHas).
HatDelete(h, id) ==
    IF Len(h.elements) = 1 THEN EmptyHat
    ELSE LET idIndex == h.index[id]
             spliced == [k \in 1 .. Len(h.elements) - 1 |->
                           IF k - 1 < idIndex THEN h.elements[k]
                           ELSE h.elements[k + 1]]
             n == Len(spliced)
             moved == {spliced[i + 1].id : i \in idIndex .. n - 1}
             index1 == [x \in DOMAIN h.index \cup moved |->
                          IF x \in moved
                          THEN Max({i \in idIndex .. n - 1 : spliced[i + 1].id = x})
                          ELSE h.index[x]]
         IN [size |-> SumWeights(spliced, n),
             elements |-> [k \in 1 .. n |->
                             [spliced[k] EXCEPT
                                !.cumulativeWeight = SumWeights(spliced, k)]],
             index |-> MapDelete(index1, id)]

\* The binary search comparing with <= instead of <.
RECURSIVE BinarySearchUpper(_, _, _, _)
BinarySearchUpper(elems, left, right, r2) ==
    IF left < right
    THEN LET mid == (left + right) \div 2
         IN IF 2 * elems[mid + 1].cumulativeWeight <= r2
            THEN BinarySearchUpper(elems, mid + 1, right, r2)
            ELSE BinarySearchUpper(elems, left, mid, r2)
    ELSE left

RECURSIVE BinarySearch(_, _, _, _)
\* The while (left < right) loop of Hat.draw; random = r2 / 2.
BinarySearch(elems, left, right, r2) ==
    IF left < right
    THEN LET mid == (left + right) \div 2
         IN IF 2 * elems[mid + 1].cumulativeWeight < r2
            THEN BinarySearch(elems, mid + 1, right, r2)
            ELSE BinarySearch(elems, left, mid, r2)
    ELSE left

\* One value of 2 * Math.random() * size per outcome of the comparisons
\* cumulativeWeight < random: 0, every boundary below size, and a point
\* strictly inside every interval.
RandomPoints(h) ==
    {r2 \in {0} \cup UNION {{2 * h.elements[k].cumulativeWeight - 1,
                             2 * h.elements[k].cumulativeWeight} :
                                k \in DOMAIN h.elements} :
        r2 >= 0 /\ r2 < 2 * h.size}

\* Hat.draw that bumps the drawn element too.
HatDrawBumpAll(h, r2) ==
    IF h.size = 1 THEN [id |-> h.elements[1].id, hat |-> h]
    ELSE LET n == Len(h.elements)
             left == BinarySearch(h.elements, 0, n - 1, r2)
             ceilMeanWeight == CeilDiv(h.size, n)
         IN [id |-> h.elements[left + 1].id,
             hat |-> [size |-> h.size + (n - 1) * ceilMeanWeight,
                      elements |-> [k \in 1 .. n |->
                          [id |-> h.elements[k].id,
                           weight |-> h.elements[k].weight + ceilMeanWeight,
                           cumulativeWeight |-> h.elements[k].cumulativeWeight
                               + (IF k - 1 < left THEN k ELSE k - 1) * ceilMeanWeight]],
                      index |-> h.index]]

\* Hat.draw that adds the same (i + 1) * bump to every cumulative weight.
HatDrawStaleCumulative(h, r2) ==
    IF h.size = 1 THEN [id |-> h.elements[1].id, hat |-> h]
    ELSE LET n == Len(h.elements)
             left == BinarySearch(h.elements, 0, n - 1, r2)
             ceilMeanWeight == CeilDiv(h.size, n)
         IN [id |-> h.elements[left + 1].id,
             hat |-> [size |-> h.size + (n - 1) * ceilMeanWeight,
                      elements |-> [k \in 1 .. n |->
                          [id |-> h.elements[k].id,
                           weight |-> IF k - 1 # left
                                      THEN h.elements[k].weight + ceilMeanWeight
                                      ELSE h.elements[k].weight,
                           cumulativeWeight |-> h.elements[k].cumulativeWeight
                               + k * ceilMeanWeight]],
                      index |-> h.index]]

\* Hat.draw whose cumulative update tests i <= left instead of i < left.
HatDrawShiftDrawn(h, r2) ==
    IF h.size = 1 THEN [id |-> h.elements[1].id, hat |-> h]
    ELSE LET n == Len(h.elements)
             left == BinarySearch(h.elements, 0, n - 1, r2)
             ceilMeanWeight == CeilDiv(h.size, n)
         IN [id |-> h.elements[left + 1].id,
             hat |-> [size |-> h.size + (n - 1) * ceilMeanWeight,
                      elements |-> [k \in 1 .. n |->
                          [id |-> h.elements[k].id,
                           weight |-> IF k - 1 # left
                                      THEN h.elements[k].weight + ceilMeanWeight
                                      ELSE h.elements[k].weight,
                           cumulativeWeight |-> h.elements[k].cumulativeWeight
                               + (IF k - 1 <= left THEN k ELSE k - 1) * ceilMeanWeight]],
                      index |-> h.index]]

\* Hat.draw past its size === 0 check (the caller tests size).
HatDraw(h, r2) ==
    IF h.size = 1 THEN [id |-> h.elements[1].id, hat |-> h]
    ELSE LET n == Len(h.elements)
             left == BinarySearch(h.elements, 0, n - 1, r2)
             ceilMeanWeight == CeilDiv(h.size, n)
         IN [id |-> h.elements[left + 1].id,
             hat |-> [size |-> h.size + (n - 1) * ceilMeanWeight,
                      elements |-> [k \in 1 .. n |->
                          [id |-> h.elements[k].id,
                           weight |-> IF k - 1 # left
                                      THEN h.elements[k].weight + ceilMeanWeight
                                      ELSE h.elements[k].weight,
                           cumulativeWeight |-> h.elements[k].cumulativeWeight
                               + (IF k - 1 < left THEN k ELSE k - 1) * ceilMeanWeight]],
                      index |-> h.index]]

\* --------------------------------------------- SecretSantaParticipant
\* The defaults of the constructor; extra stands for a key the schema does
\* not know ("" when there is none).
DefaultStats ==
    [meanRecipientWeight |-> 1, previousRecipient |-> "",
     recipientRepeatFrequency |-> 0, recipients |-> <<>>, extra |-> ""]

RecipientNames(stats) == {stats.recipients[k].name : k \in DOMAIN stats.recipients}

\* new SecretSantaParticipant(name, stats).  this.stats is a shallow copy:
\* live says whether this.stats is the very object a record of the group
\* state holds (it is not, after the copy); shared holds the names whose
\* recipient objects are still the ones of the stats passed in (all of them,
\* unless stats is the fresh {} of a name without a record).
NewParticipant(name, stats, fresh) ==
    [name |-> name, stats |-> stats, hat |-> EmptyHat, live |-> FALSE,
     shared |-> IF fresh THEN {} ELSE RecipientNames(stats)]

RecalculateMeanRecipientWeight(p) ==
    [p EXCEPT !.stats.meanRecipientWeight =
        RoundDiv(SumWeights(p.stats.recipients, Len(p.stats.recipients)),
                 Len(p.stats.recipients))]

\* addRecipient that gives a known recipient the default weight and
\* frequency again.
AddRecipientForget(p, name) ==
    LET recs == p.stats.recipients
        found == {k \in DOMAIN recs : recs[k].name = name}
        entry == [name |-> name, weight |-> p.stats.meanRecipientWeight,
                  frequency |-> 0]
        p1 == [p EXCEPT !.stats.recipients =
                            IF found = {} THEN Append(recs, entry)
                            ELSE [recs EXCEPT ![Min(found)] = entry],
                        !.shared = @ \ {name}]
    IN IF HatHas(p.hat, name) THEN [p |-> p1, ok |-> FALSE]
       ELSE [p |-> RecalculateMeanRecipientWeight(
                       [p1 EXCEPT !.hat = HatSet(p.hat, name, entry.weight)]),
             ok |-> TRUE]

\* addRecipient that puts the name into the hat at the mean weight, whatever
\* the weight of its record.
AddRecipientHatMean(p, name) ==
    LET recs == p.stats.recipients
        found == {k \in DOMAIN recs : recs[k].name = name}
        weight == IF found = {} THEN p.stats.meanRecipientWeight
                  ELSE recs[Min(found)].weight
        frequency == IF found = {} THEN 0 ELSE recs[Min(found)].frequency
        entry == [name |-> name, weight |-> weight, frequency |-> frequency]
        p1 == [p EXCEPT !.stats.recipients =
                            IF found = {} THEN Append(recs, entry)
                            ELSE [recs EXCEPT ![Min(found)] = entry],
                        !.shared = @ \ {name}]
    IN IF HatHas(p.hat, name) THEN [p |-> p1, ok |-> FALSE]
       ELSE [p |-> RecalculateMeanRecipientWeight(
                       [p1 EXCEPT !.hat = HatSet(p.hat, name,
                                                 p.stats.meanRecipientWeight)]),
             ok |-> TRUE]

\* addRecipient: [p, ok]; ok is FALSE when hat.set throws, after
\* stats.recipients was replaced and before the mean is recalculated.
AddRecipient(p, name) ==
    LET recs == p.stats.recipients
        found == {k \in DOMAIN recs : recs[k].name = name}
        weight == IF found = {} THEN p.stats.meanRecipientWeight
                  ELSE recs[Min(found)].weight
        frequency == IF found = {} THEN 0 ELSE recs[Min(found)].frequency
        entry == [name |-> name, weight |-> weight, frequency |-> frequency]
        p1 == [p EXCEPT !.stats.recipients =
                            IF found = {} THEN Append(recs, entry)
                            ELSE [recs EXCEPT ![Min(found)] = entry],
                        !.shared = @ \ {name}]
    IN IF HatHas(p.hat, name) THEN [p |-> p1, ok |-> FALSE]
       ELSE [p |-> RecalculateMeanRecipientWeight(
                       [p1 EXCEPT !.hat = HatSet(p.hat, name, weight)]),
             ok |-> TRUE]

\* removeRecipient past the existence check of hat.delete.
RemoveRecipient(p, name) == [p EXCEPT !.hat = HatDelete(p.hat, name)]

\* normalizeWeights dividing with Math.floor instead of Math.ceil.
RECURSIVE NormalizeWeightsFloor(_)
NormalizeWeightsFloor(recs) ==
    IF \E k \in DOMAIN recs : recs[k].weight > WeightCeiling
    THEN NormalizeWeightsFloor(
             [k \in DOMAIN recs |-> [recs[k] EXCEPT !.weight = @ \div 10]])
    ELSE recs

RECURSIVE NormalizeWeights(_)
NormalizeWeights(recs) ==
    IF \E k \in DOMAIN recs : recs[k].weight > WeightCeiling
    THEN NormalizeWeights(
             [k \in DOMAIN recs |-> [recs[k] EXCEPT !.weight = CeilDiv(@, 10)]])
    ELSE recs

\* choose that counts every choice as a repeat.
ChooseAlwaysRepeat(p, name) ==
    LET mean == p.stats.meanRecipientWeight
        bumped == [k \in DOMAIN p.stats.recipients |->
                     IF p.stats.recipients[k].name = name
                     THEN [p.stats.recipients[k] EXCEPT !.frequency = @ + 1]
                     ELSE [p.stats.recipients[k] EXCEPT !.weight = @ + mean]]
    IN RecalculateMeanRecipientWeight(
           [p EXCEPT !.stats.recipientRepeatFrequency = @ + 1,
                     !.stats.previousRecipient = name,
                     !.stats.recipients = NormalizeWeights(bumped)])

\* choose that adds the mean to the weight of the chosen recipient too.
ChooseBumpAll(p, name) ==
    LET mean == p.stats.meanRecipientWeight
        bumped == [k \in DOMAIN p.stats.recipients |->
                     IF p.stats.recipients[k].name = name
                     THEN [p.stats.recipients[k] EXCEPT !.frequency = @ + 1,
                                                        !.weight = @ + mean]
                     ELSE [p.stats.recipients[k] EXCEPT !.weight = @ + mean]]
    IN RecalculateMeanRecipientWeight(
           [p EXCEPT !.stats.recipientRepeatFrequency =
                         IF p.stats.previousRecipient = name THEN @ + 1 ELSE @,
                     !.stats.previousRecipient = name,
                     !.stats.recipients = NormalizeWeights(bumped)])

Choose(p, name) ==
    LET mean == p.stats.meanRecipientWeight
        bumped == [k \in DOMAIN p.stats.recipients |->
                     IF p.stats.recipients[k].name = name
                     THEN [p.stats.recipients[k] EXCEPT !.frequency = @ + 1]
                     ELSE [p.stats.recipients[k] EXCEPT !.weight = @ + mean]]
    IN RecalculateMeanRecipientWeight(
           [p EXCEPT !.stats.recipientRepeatFrequency =
                         IF p.stats.previousRecipient = name THEN @ + 1 ELSE @,
                     !.stats.previousRecipient = name,
                     !.stats.recipients = NormalizeWeights(bumped)])

\* SecretSantaParticipant.toJSON: {name, stats: this.stats}, no other key.
ParticipantToJSON(p) == [name |-> p.name, stats |-> p.stats, extra |-> ""]

\* ------------------------------------------------------------ SecretSanta
\* What the group state shows, given the objects it shares with the live
\* participants.  A record whose stats object is a participant's this.stats
\* (live) shows that participant's statistics; otherwise the recipient
\* objects the participant still shares with the record show the weights
\* choose wrote into them.
SyncRecord(rec, ps) ==
    IF rec.name \notin DOMAIN ps THEN rec
    ELSE LET p == ps[rec.name]
         IN IF p.live THEN [rec EXCEPT !.stats = p.stats]
            ELSE [rec EXCEPT !.stats.recipients =
                     [k \in DOMAIN @ |->
                        IF @[k].name \in p.shared
                        THEN CHOOSE e \in Range(p.stats.recipients) :
                                 e.name = @[k].name
                        ELSE @[k]]]

Sync(st, ps) == [k \in DOMAIN st |-> SyncRecord(st[k], ps)]

Synced(g) == [g EXCEPT !.state = Sync(g.state, g.participants)]

\* map.set(participant.name, participant) on a Map kept in insertion order.
UpsertRecord(recs, rec) ==
    IF \E k \in DOMAIN recs : recs[k].name = rec.name
    THEN [k \in DOMAIN recs |-> IF recs[k].name = rec.name THEN rec ELSE recs[k]]
    ELSE Append(recs, rec)

RECURSIVE UpsertAll(_, _, _)
UpsertAll(acc, recs, k) ==
    IF k > Len(recs) THEN acc
    ELSE UpsertAll(UpsertRecord(acc, recs[k]), recs, k + 1)

\* updateState that keeps only the records passed in.
UpdateStateReplace(old, new) == UpsertAll(<<>>, new, 1)

UpdateState(old, new) == UpsertAll(UpsertAll(<<>>, old, 1), new, 1)

RECURSIVE AddLoop(_, _, _, _)
\* for (let n of this.names) of addParticipant; ok is FALSE when an
\* addRecipient throws, with what was written until then.
AddLoop(ps, participant, ns, k) ==
    IF k > Len(ns) THEN [ps |-> ps, p |-> participant, ok |-> TRUE]
    ELSE LET n == ns[k]
             r1 == AddRecipient(ps[n], participant.name)
             ps1 == [ps EXCEPT ![n] = r1.p]
             r2 == AddRecipient(participant, n)
         IN IF ~r1.ok THEN [ps |-> ps1, p |-> participant, ok |-> FALSE]
            ELSE IF ~r2.ok THEN [ps |-> ps1, p |-> r2.p, ok |-> FALSE]
            ELSE AddLoop(ps1, r2.p, ns, k + 1)

\* addParticipant without its has(name) check.
AddParticipantNoCheck(g, name) ==
    LET found == {k \in DOMAIN g.state : g.state[k].name = name}
        participant == IF found = {}
                       THEN NewParticipant(name, DefaultStats, TRUE)
                       ELSE NewParticipant(name, g.state[Min(found)].stats, FALSE)
        r == AddLoop(g.participants, participant, g.names, 1)
    IN IF ~r.ok
       THEN [g |-> Synced([g EXCEPT !.participants = r.ps]),
             error |-> "HatDuplicate"]
       ELSE [g |-> Synced([g EXCEPT !.names = Append(@, name),
                                    !.participants = MapSet(r.ps, name, r.p)]),
             error |-> ""]

\* addParticipant: [g, error], g the group {names, participants, state}.
AddParticipant(g, name) ==
    IF name \in DOMAIN g.participants
    THEN [g |-> g, error |-> "ParticipantExists"]
    ELSE LET found == {k \in DOMAIN g.state : g.state[k].name = name}
             participant == IF found = {}
                            THEN NewParticipant(name, DefaultStats, TRUE)
                            ELSE NewParticipant(name, g.state[Min(found)].stats, FALSE)
             r == AddLoop(g.participants, participant, g.names, 1)
         IN IF ~r.ok
            THEN [g |-> Synced([g EXCEPT !.participants = r.ps]),
                  error |-> "HatDuplicate"]
            ELSE [g |-> Synced([g EXCEPT !.names = Append(@, name),
                                         !.participants = MapSet(r.ps, name, r.p)]),
                  error |-> ""]

RECURSIVE RemoveLoop(_, _, _, _)
\* for (let n of this.names) this.participants.get(n).removeRecipient(name)
RemoveLoop(ps, ns, k, name) ==
    IF k > Len(ns) THEN [ps |-> ps, ok |-> TRUE]
    ELSE IF ~HatHas(ps[ns[k]].hat, name) THEN [ps |-> ps, ok |-> FALSE]
    ELSE RemoveLoop([ps EXCEPT ![ns[k]] = RemoveRecipient(@, name)], ns, k + 1, name)

\* removeParticipant: [g, error].
RemoveParticipant(g, name) ==
    IF name \notin DOMAIN g.participants
    THEN [g |-> g, error |-> "NoSuchParticipant"]
    ELSE LET Keep(n) == n # name
             ns == SelectSeq(g.names, Keep)
             r == RemoveLoop(MapDelete(g.participants, name), ns, 1, name)
         IN [g |-> [g EXCEPT !.names = ns, !.participants = r.ps],
             error |-> IF r.ok THEN "" ELSE "HatNotFound"]

Clear(g) == [g EXCEPT !.participants = EmptyMap, !.names = <<>>]

RECURSIVE AddAll(_, _, _)
\* for (let name of tmp) this.addParticipant(name); stops at the first throw.
AddAll(g, ns, k) ==
    IF k > Len(ns) THEN [g |-> g, error |-> ""]
    ELSE LET r == AddParticipant(g, ns[k])
         IN IF r.error # "" THEN r ELSE AddAll(r.g, ns, k + 1)

\* setState without its call of clear.
SetStateNoClear(g, st) == AddAll([g EXCEPT !.state = st], g.names, 1)

\* setState(state): [g, error].
SetState(g, st) == AddAll([Clear(g) EXCEPT !.state = st], g.names, 1)

ToJSON(g) == g.state

\* The loop of draw that removes the recipient from no pending hat.
RemovePendingNone(ps, queue, j, recipientName) == [ps |-> ps, ok |-> TRUE]

\* The loop of draw that stops after the first pending position.
RemovePendingNext(ps, queue, j, recipientName) ==
    IF j >= Len(queue) THEN [ps |-> ps, ok |-> TRUE]
    ELSE LET name == queue[j + 1]
         IN IF name = recipientName THEN [ps |-> ps, ok |-> TRUE]
            ELSE IF ~HatHas(ps[name].hat, recipientName)
            THEN [ps |-> ps, ok |-> FALSE]
            ELSE [ps |-> [ps EXCEPT ![name] = RemoveRecipient(@, recipientName)],
                  ok |-> TRUE]

RECURSIVE RemovePending(_, _, _, _)
\* for (let j = i + 1; ...) of draw: [ps, ok]; ok is FALSE when
\* removeRecipient throws, with the removals made until then.
RemovePending(ps, queue, j, recipientName) ==
    IF j >= Len(queue) THEN [ps |-> ps, ok |-> TRUE]
    ELSE LET name == queue[j + 1]
         IN IF name = recipientName
            THEN RemovePending(ps, queue, j + 1, recipientName)
            ELSE IF ~HatHas(ps[name].hat, recipientName)
            THEN [ps |-> ps, ok |-> FALSE]
            ELSE RemovePending([ps EXCEPT ![name] = RemoveRecipient(@, recipientName)],
                               queue, j + 1, recipientName)

\* The ring-break test without its look at the pairs made so far.
RingBreakAlways(queue, pairs, i) == i = Len(queue) - 2

\* The ring-break test of draw at position i.
RingBreak(queue, pairs, i) ==
    /\ i = Len(queue) - 2
    /\ ~\E k \in DOMAIN pairs : pairs[k].recipient = queue[Len(queue)]

\* this.names.sort(() => Math.random() - 0.5): any order of the names.
Shuffles(ns) ==
    {q \in [DOMAIN ns -> Range(ns)] : \A k \in DOMAIN ns : \E m \in DOMAIN ns : q[m] = ns[k]}

\* ---------------------------------------------------------------- state
VARIABLES
    names,          \* SecretSanta.names
    participants,   \* SecretSanta.participants: name -> participant
    state,          \* SecretSanta.state, as toJSON() shows it
    input,          \* the state the constructor was given, as given
    pc,             \* "idle", or "drawing" inside draw()
    run,            \* draw(): the position i, the pairs, whether every hat
                    \* held all the other names when draw() was called, and
                    \* the participants' statistics at that moment
    last,           \* the last call of the group: op, arg, error ("" if none)
    draws,          \* draw() calls so far
    ops,            \* other calls so far
    hat,            \* a Hat on its own
    hatLast,        \* the last call of hat: op, id, error, the id returned
    hatOps,         \* the methods called on hat so far
    hatSteps        \* calls on hat so far

vars == <<names, participants, state, input, pc, run, last, draws, ops,
          hat, hatLast, hatOps, hatSteps>>

groupVars == <<names, participants, state, input, pc, run, last, draws, ops>>

hatVars == <<hat, hatLast, hatOps, hatSteps>>

G == [names |-> names, participants |-> participants, state |-> state]

NoRun == [i |-> 0, pairs |-> <<>>, full |-> FALSE, before |-> EmptyMap]

\* A state of earlier years: a has three known recipients (d is not taking
\* part unless added), weights near the ceiling and keys of the caller's
\* own (extra); b was written by hand, without meanRecipientWeight; c has
\* no record.
StoredState ==
    << [name |-> "a", extra |-> "x",
        stats |-> [meanRecipientWeight |-> 5000, previousRecipient |-> "b",
                   recipientRepeatFrequency |-> 1, extra |-> "y",
                   recipients |-> << [name |-> "b", weight |-> 9999, frequency |-> 2],
                                     [name |-> "c", weight |-> 1, frequency |-> 0],
                                     [name |-> "d", weight |-> 5000, frequency |-> 1] >>]],
       [name |-> "b", extra |-> "",
        stats |-> [meanRecipientWeight |-> 1, previousRecipient |-> "a",
                   recipientRepeatFrequency |-> 0, extra |-> "",
                   recipients |-> << [name |-> "a", weight |-> 1, frequency |-> 1],
                                     [name |-> "c", weight |-> 4, frequency |-> 0] >>]],
       [name |-> "d", extra |-> "z",
        stats |-> [meanRecipientWeight |-> 1, previousRecipient |-> "a",
                   recipientRepeatFrequency |-> 0, extra |-> "",
                   recipients |-> << [name |-> "a", weight |-> 1, frequency |-> 1] >>]] >>

InputStates == {<<>>, StoredState}

HatInit ==
    /\ hat = EmptyHat
    /\ hatLast = [op |-> "new", id |-> "", error |-> "", ret |-> ""]
    /\ hatOps = {}
    /\ hatSteps = 0

\* new SecretSanta(state)
GroupInit(st) ==
    /\ names = <<>>
    /\ participants = EmptyMap
    /\ state = st
    /\ input = st
    /\ pc = "idle"
    /\ run = NoRun
    /\ last = [op |-> "new", arg |-> "", error |-> ""]
    /\ draws = 0
    /\ ops = 0

Init == HatInit /\ \E st \in InputStates : GroupInit(st)

\* ---------------------------------------------------------- group calls
SetGroup(g) ==
    /\ names' = g.names
    /\ participants' = g.participants
    /\ state' = g.state

Call(op, arg, r) ==
    /\ SetGroup(r.g)
    /\ last' = [op |-> op, arg |-> arg, error |-> r.error]
    /\ ops' = ops + 1
    /\ run' = NoRun
    /\ UNCHANGED <<input, pc, draws, hatVars>>

DoAddParticipant(name) ==
    /\ pc = "idle" /\ ops < MaxOps
    /\ Call("addParticipant", name, AddParticipant(G, name))

DoRemoveParticipant(name) ==
    /\ pc = "idle" /\ ops < MaxOps
    /\ Call("removeParticipant", name, RemoveParticipant(G, name))

DoClear ==
    /\ pc = "idle" /\ ops < MaxOps
    /\ Call("clear", "", [g |-> Clear(G), error |-> ""])

\* setState(toJSON())
DoSetState ==
    /\ pc = "idle" /\ ops < MaxOps
    /\ Call("setState", "", SetState(G, ToJSON(G)))

\* Every hat holds exactly the other names.
HatsFull ==
    \A n \in DOMAIN participants :
        DOMAIN participants[n].hat.index = DOMAIN participants \ {n}

\* draw() up to its loop.
DrawShuffle ==
    /\ pc = "idle"
    /\ names' \in Shuffles(names)
    /\ pc' = "drawing"
    /\ run' = [i |-> 0, pairs |-> <<>>, full |-> HatsFull,
               before |-> [n \in DOMAIN participants |-> participants[n].stats]]
    /\ last' = [op |-> "draw", arg |-> "", error |-> ""]
    /\ draws' = draws + 1
    /\ UNCHANGED <<participants, state, input, ops, hatVars>>

DrawBegin == draws < MaxDraws /\ DrawShuffle

\* draw() throws: the pairs are lost, what was written stays.
DrawThrow(ps, error) ==
    /\ participants' = ps
    /\ state' = Sync(state, ps)
    /\ pc' = "idle"
    /\ last' = [last EXCEPT !.error = error]
    /\ UNCHANGED <<names, input, run, draws, ops, hatVars>>

\* The rest of iteration i once recipientName is known; ps holds the hats
\* after the draw of this iteration.
DrawAssign(ps, recipientName) ==
    LET i == run.i
        name == names[i + 1]
        rm == RemovePending(ps, names, i + 1, recipientName)
    IN IF ~rm.ok THEN DrawThrow(rm.ps, "HatNotFound")
       ELSE /\ participants' = [rm.ps EXCEPT ![name] = Choose(@, recipientName)]
            /\ state' = Sync(state, participants')
            /\ run' = [run EXCEPT !.i = i + 1,
                                  !.pairs = Append(@, [name |-> name,
                                                       recipient |-> recipientName])]
            /\ UNCHANGED <<names, input, pc, last, draws, ops, hatVars>>

\* One iteration of the loop of draw().
DrawStep ==
    /\ pc = "drawing" /\ run.i < Len(names)
    /\ LET name == names[run.i + 1]
           participant == participants[name]
       IN \/ /\ RingBreak(names, run.pairs, run.i)
             /\ DrawAssign(participants, names[Len(names)])
          \/ /\ ~RingBreak(names, run.pairs, run.i)
             /\ participant.hat.size = 0
             /\ DrawThrow(participants, "HatEmpty")
          \/ /\ ~RingBreak(names, run.pairs, run.i)
             /\ participant.hat.size # 0
             /\ \E r2 \in RandomPoints(participant.hat) :
                   LET d == HatDraw(participant.hat, r2)
                   IN DrawAssign([participants EXCEPT ![name].hat = d.hat], d.id)

\* draw() after its loop: updateState and return pairs.
DrawEnd ==
    /\ pc = "drawing" /\ run.i = Len(names)
    /\ state' = UpdateState(state,
                   [k \in DOMAIN names |-> ParticipantToJSON(participants[names[k]])])
    /\ participants' = [n \in DOMAIN participants |->
                           [participants[n] EXCEPT !.live = TRUE]]
    /\ pc' = "idle"
    /\ UNCHANGED <<names, input, run, last, draws, ops, hatVars>>

Next ==
    \/ \E name \in Names : DoAddParticipant(name)
    \/ \E name \in Names : DoRemoveParticipant(name)
    \/ DoClear
    \/ DoSetState
    \/ DrawBegin
    \/ DrawStep
    \/ DrawEnd

Spec == Init /\ [][Next]_vars

\* ------------------------------------- one draw() on a newly built group
\* The orders in which one to four of the names can have been added.
Orders(S) ==
    {q \in UNION {[1 .. n -> S] : n \in 1 .. Cardinality(S)} :
        \A k, m \in DOMAIN q : q[k] = q[m] => k = m}

\* new SecretSanta(st) followed by addParticipant of the names of ns.
InitDraw ==
    /\ HatInit
    /\ \E st \in InputStates, ns \in Orders(DrawNames) :
          LET built == AddAll([names |-> <<>>, participants |-> EmptyMap,
                               state |-> st], ns, 1)
          IN /\ names = built.g.names
             /\ participants = built.g.participants
             /\ state = built.g.state
             /\ input = st
             /\ last = [op |-> "addParticipant", arg |-> ns[Len(ns)],
                        error |-> built.error]
             /\ ops = Len(ns)
    /\ pc = "idle"
    /\ run = NoRun
    /\ draws = 0

DrawFirst == draws = 0 /\ DrawShuffle

NextDraw == DrawFirst \/ DrawStep \/ DrawEnd

SpecDraw == InitDraw /\ [][NextDraw]_vars

\* ------------------------------------------------------ a Hat on its own
HatCall(op, id, h, error, ret) ==
    /\ hatSteps < MaxHatSteps
    /\ hat' = h
    /\ hatLast' = [op |-> op, id |-> id, error |-> error, ret |-> ret]
    /\ hatOps' = hatOps \cup {op}
    /\ hatSteps' = hatSteps + 1
    /\ UNCHANGED groupVars

\* Hat.set without its has(id) check.
DoHatSetNoCheck(id, weight) ==
    HatCall("set", id, HatSet(hat, id, weight), "", "")

DoHatSet(id, weight) ==
    IF HatHas(hat, id) THEN HatCall("set", id, hat, "HatDuplicate", "")
    ELSE HatCall("set", id, HatSet(hat, id, weight), "", "")

DoHatDelete(id) ==
    IF ~HatHas(hat, id) THEN HatCall("delete", id, hat, "HatNotFound", "")
    ELSE HatCall("delete", id, HatDelete(hat, id), "", "")

DoHatDraw ==
    IF hat.size = 0 THEN HatCall("draw", "", hat, "HatEmpty", "")
    ELSE \E r2 \in RandomPoints(hat) :
            LET d == HatDraw(hat, r2)
            IN HatCall("draw", "", d.hat, "", d.id)

DoHatScale(factor) ==
    HatCall("scale", "", HatScale(hat, factor[1], factor[2]), "", "")

InitHat == HatInit /\ GroupInit(<<>>)

NextHat ==
    \/ \E id \in HatIds, weight \in HatWeights : DoHatSet(id, weight)
    \/ \E id \in HatIds : DoHatDelete(id)
    \/ DoHatDraw
    \/ \E factor \in HatFactors : DoHatScale(factor)

SpecHat == InitHat /\ [][NextHat]_vars

\* --------------------------------------------------------------- claims
\* draw() has returned its pairs (it did not throw).
DrawReturned == pc = "idle" /\ last.op = "draw" /\ last.error = ""

\* The step from s to s' is an iteration of draw() that reached choose.
ChooseStep == pc = "drawing" /\ run'.i = run.i + 1

IsDerangement(pairs, ns) ==
    /\ Len(pairs) = Len(ns)
    /\ \A n \in Range(ns) :
          /\ Cardinality({k \in DOMAIN pairs : pairs[k].name = n}) = 1
          /\ Cardinality({k \in DOMAIN pairs : pairs[k].recipient = n}) = 1
    /\ \A k \in DOMAIN pairs :
          /\ pairs[k].name \in Range(ns)
          /\ pairs[k].recipient \in Range(ns)
          /\ pairs[k].name # pairs[k].recipient

\* C1: when every hat held exactly the other n-1 names at the call, n >= 2,
\* the pairs draw() returns are a bijection on the names without a name
\* paired with itself.
C1_Derangement ==
    (DrawReturned /\ run.full /\ Len(names) >= 2) => IsDerangement(run.pairs, names)

\* Four names, the ring-break not taken: the last name of the queue was
\* chosen before position n-2.
C1_Witness ==
    /\ DrawReturned /\ run.full /\ Len(names) = 4
    /\ \E k \in 1 .. 2 : run.pairs[k].recipient = names[4]

\* C2: every draw() on a group of n >= 2, the first and the later ones on
\* the same instance, returns without throwing.
C2_EveryDrawReturns ==
    (last.op = "draw" /\ Len(names) >= 2) => last.error = ""

\* C3: after any sequence of Hat.set and Hat.draw from the empty hat the
\* average weight stays within the ceiling, size <= 9999 * count (the part
\* of the claim that the comment in Hat.set states too; the other part,
\* every weight <= 9999, already fails after set("a", 1), set("b", 19997)).
C3_WeightBound ==
    hatOps \subseteq {"set", "draw"} =>
        hat.size <= WeightCeiling * Len(hat.elements)

\* C4: choose leaves every persisted weight of the chooser in 1 .. 9999
\* when the weights were positive before (normalizeWeights has finished).
C4_ChooseNormalizes ==
    [][ChooseStep =>
          LET name == names[run.i + 1]
              before == participants[name].stats.recipients
              after == participants'[name].stats.recipients
          IN (\A k \in DOMAIN before : before[k].weight >= 1) =>
                 \A k \in DOMAIN after :
                     after[k].weight >= 1 /\ after[k].weight <= WeightCeiling]_vars

\* a chose c: b went 9999 + 5000 = 14999 and was divided to 1500, c stays 1.
C4_Witness ==
    /\ "a" \in DOMAIN participants
    /\ participants["a"].stats.previousRecipient = "c"
    /\ \E k \in DOMAIN participants["a"].stats.recipients :
          LET e == participants["a"].stats.recipients[k]
          IN e.name = "b" /\ e.weight = 1500

\* C5: the cumulative weights are strictly increasing along the elements
\* and the last one equals size.
C5_CumulativeSums ==
    /\ \A k \in DOMAIN hat.elements :
          hat.elements[k].cumulativeWeight >
              (IF k = 1 THEN 0 ELSE hat.elements[k - 1].cumulativeWeight)
    /\ hat.size = (IF hat.elements = <<>> THEN 0
                   ELSE hat.elements[Len(hat.elements)].cumulativeWeight)

C5_Witness ==
    /\ hatOps = {"set", "delete", "draw", "scale"}
    /\ Len(hat.elements) >= 2
    /\ hatLast.error = ""

\* C6: choose(name) adds 1 to recipientRepeatFrequency exactly when name is
\* the previousRecipient held before the call, and sets previousRecipient to
\* name; after draw() returned every previousRecipient is the recipient of
\* the participant's pair.
C6_RepeatTracking ==
    /\ [][ChooseStep =>
             LET name == names[run.i + 1]
                 recipient == run'.pairs[run.i + 1].recipient
                 before == participants[name].stats
                 after == participants'[name].stats
             IN /\ run'.pairs[run.i + 1].name = name
                /\ after.previousRecipient = recipient
                /\ after.recipientRepeatFrequency =
                       before.recipientRepeatFrequency
                           + (IF before.previousRecipient = recipient THEN 1 ELSE 0)]_vars
    /\ [](DrawReturned =>
             \A k \in DOMAIN run.pairs :
                 participants[run.pairs[k].name].stats.previousRecipient =
                     run.pairs[k].recipient)

\* A fresh group whose second draw repeated a pair and whose third
\* participant did not repeat.
C6_Witness ==
    /\ DrawReturned /\ input = <<>> /\ draws = 2
    /\ \E n \in DOMAIN participants :
          participants[n].stats.recipientRepeatFrequency = 1
    /\ \E n \in DOMAIN participants :
          participants[n].stats.recipientRepeatFrequency = 0

\* The step from s to s' is the call setState(toJSON()).
SetStateStep == last'.op = "setState" /\ ops' = ops + 1

\* C7: building the group again from toJSON() and adding the same names
\* (setState(toJSON())) leaves what toJSON() returns unchanged, and every
\* participant rebuilt from a record that a draw serialized holds exactly the
\* statistics of that record (recipients, weights, frequencies, mean,
\* previousRecipient, recipientRepeatFrequency).
C7_RoundTrip ==
    [][SetStateStep =>
          /\ last'.error = ""
          /\ names' = names
          /\ state' = state
          /\ \A k \in DOMAIN state :
                (state[k].name \in DOMAIN participants
                     /\ participants[state[k].name].live) =>
                    participants'[state[k].name].stats = state[k].stats]_vars

\* A group of three rebuilt after a draw.
C7_Witness ==
    /\ last.op = "setState" /\ Len(names) >= 3 /\ draws >= 1
    /\ \E k \in DOMAIN state :
          /\ state[k].name \in DOMAIN participants
          /\ state[k].stats.previousRecipient # ""
          /\ Len(state[k].stats.recipients) >= 2
          /\ state[k].stats = participants[state[k].name].stats

\* C8: the keys of the input state that the schema does not know (extra, on
\* a record and inside its stats) are in the state after draw() returned.
C8_ExtraKeysKept ==
    DrawReturned =>
        \A k \in DOMAIN input :
            \E m \in DOMAIN state :
                /\ state[m].name = input[k].name
                /\ state[m].extra = input[k].extra
                /\ state[m].stats.extra = input[k].stats.extra

\* C9: through draw() the records of the names that are not participants
\* stay as they are, and when draw() returns the state holds exactly one
\* record per name of the previous state or of the group, the participants'
\* records carrying their statistics.
C9_Merge ==
    [][pc = "drawing" =>
          /\ \A k \in DOMAIN state :
                state[k].name \notin Range(names) =>
                    \E m \in DOMAIN state' : state'[m] = state[k]
          /\ (pc' = "idle" /\ last'.error = "") =>
                /\ {state'[m].name : m \in DOMAIN state'} =
                       {state[k].name : k \in DOMAIN state} \cup Range(names)
                /\ \A k, m \in DOMAIN state' :
                       state'[k].name = state'[m].name => k = m
                /\ \A n \in Range(names) :
                       \E m \in DOMAIN state' :
                           /\ state'[m].name = n
                           /\ state'[m].stats = participants'[n].stats]_vars

C9_Witness ==
    /\ DrawReturned /\ Len(names) >= 2
    /\ \E k \in DOMAIN state : state[k].name \notin Range(names)
    /\ \E k \in DOMAIN input :
          input[k].name \in Range(names) /\ input[k] \notin Range(state)

\* C10: addParticipant of a participant and removeParticipant of a name
\* that is none throw, and leave names, participants (their hats and
\* statistics) and the state unchanged.
C10_Rejected ==
    [][ops' = ops + 1 =>
          /\ (last'.op = "addParticipant" /\ last'.arg \in DOMAIN participants) =>
                /\ last'.error = "ParticipantExists"
                /\ UNCHANGED <<names, participants, state>>
          /\ (last'.op = "removeParticipant" /\ last'.arg \notin DOMAIN participants) =>
                /\ last'.error = "NoSuchParticipant"
                /\ UNCHANGED <<names, participants, state>>]_vars

C10_Witness ==
    /\ last.op = "addParticipant" /\ last.error = "ParticipantExists"
    /\ Len(names) >= 2 /\ draws >= 1

\* The step from s to s' is a call of the method op on the hat.
HatStep(op) == hatSteps' = hatSteps + 1 /\ hatLast'.op = op

HatElementIds(h) == {h.elements[k].id : k \in DOMAIN h.elements}

\* C11: Hat.set of an id the hat holds, Hat.delete of an id it does not hold
\* and Hat.draw at size 0 throw, and leave size, the elements (order,
\* weights, cumulative weights) and the index as they were.
C11_HatRejects ==
    [][/\ (HatStep("set") /\ hatLast'.id \in HatElementIds(hat)) =>
              hatLast'.error = "HatDuplicate" /\ hat' = hat
       /\ (HatStep("delete") /\ hatLast'.id \notin HatElementIds(hat)) =>
              hatLast'.error = "HatNotFound" /\ hat' = hat
       /\ (HatStep("draw") /\ hat.size = 0) =>
              hatLast'.error = "HatEmpty" /\ hat' = hat]_vars

\* A rejected set on a hat of two that a draw has bumped.
C11_Witness ==
    /\ hatLast.op = "set" /\ hatLast.error = "HatDuplicate"
    /\ "draw" \in hatOps /\ Len(hat.elements) = 2

\* draw() has thrown.
DrawFailed == pc = "idle" /\ last.op = "draw" /\ last.error # ""

\* C12: a draw() that throws leaves every participant's statistics
\* (previousRecipient, recipientRepeatFrequency, the recipients' weights and
\* frequencies, meanRecipientWeight) as they were when draw() was called.
C12_FailedDrawKeepsStats ==
    DrawFailed =>
        \A n \in DOMAIN participants : participants[n].stats = run.before[n]

\* C13: removeParticipant(name) of a participant, also when it is called
\* after a draw(), returns without throwing and leaves name in the hat of no
\* remaining participant.  (With no draw() before, every hat holds exactly
\* the other names, and the cascade does succeed.)
C13_RemoveCascades ==
    [][(ops' = ops + 1 /\ last'.op = "removeParticipant"
            /\ last'.arg \in DOMAIN participants) =>
          /\ last'.error = ""
          /\ \A n \in DOMAIN participants' :
                last'.arg \notin DOMAIN participants'[n].hat.index]_vars

\* C14: a value toJSON() returned is not changed by a later choose.  The
\* value is the array this.state, which draw() replaces only in updateState
\* after its loop, so through an iteration of the loop the value returned
\* before it is what state shows: it stays as it was.
C14_ToJSONIndependent ==
    [][ChooseStep => state' = state]_vars

\* C15: the index maps the id of every element to the position of that
\* element and has no other key, no id occurs twice in the elements, and
\* size is 0 exactly when there is no element.
C15_IndexConsistent ==
    /\ DOMAIN hat.index = HatElementIds(hat)
    /\ \A k \in DOMAIN hat.elements : hat.index[hat.elements[k].id] = k - 1
    /\ \A k, m \in DOMAIN hat.elements :
          hat.elements[k].id = hat.elements[m].id => k = m
    /\ (hat.size = 0) <=> (hat.elements = <<>>)

\* Two elements left by a delete from a hat of three that was drawn from.
C15_Witness ==
    /\ hatLast.op = "delete" /\ hatLast.error = ""
    /\ Len(hat.elements) = 2
    /\ "draw" \in hatOps

\* C16: Hat.set(id, w) of an id the hat does not hold returns (its loop of
\* scale(1 / 10) ends) with the new element last, after the elements held
\* before in their order, its cumulativeWeight equal to size, size at most
\* 9999 * count, and every weight a positive integer.
C16_SetScales ==
    [][(HatStep("set") /\ hatLast'.id \notin HatElementIds(hat)) =>
          LET n == Len(hat'.elements)
          IN /\ hatLast'.error = ""
             /\ n = Len(hat.elements) + 1
             /\ \A k \in DOMAIN hat.elements :
                   hat'.elements[k].id = hat.elements[k].id
             /\ hat'.elements[n].id = hatLast'.id
             /\ hat'.elements[n].cumulativeWeight = hat'.size
             /\ hat'.size <= WeightCeiling * n
             /\ \A k \in 1 .. n : hat'.elements[k].weight \in Nat \ {0}]_vars

\* A set that scaled: the new 100000 went to 10000 and the element of
\* weight 1 before it stayed 1.
C16_Witness ==
    /\ hatLast.op = "set" /\ hatLast.error = ""
    /\ Len(hat.elements) = 2
    /\ hat.elements[1].weight = 1
    /\ hat.elements[2].weight = 10000
    /\ hat.elements[2].id = hatLast.id

\* C17: Hat.draw on two or more elements returns the id d of one of them,
\* keeps the elements and their order, keeps the weight of d, adds
\* bump = ceil(size / count) to every other weight and (count - 1) * bump to
\* size.
C17_DrawBumps ==
    [][(HatStep("draw") /\ Len(hat.elements) >= 2) =>
          LET n == Len(hat.elements)
              bump == CeilDiv(hat.size, n)
              d == hatLast'.ret
          IN /\ hatLast'.error = ""
             /\ d \in HatElementIds(hat)
             /\ Len(hat'.elements) = n
             /\ \A k \in 1 .. n :
                   /\ hat'.elements[k].id = hat.elements[k].id
                   /\ hat'.elements[k].weight =
                          hat.elements[k].weight
                              + (IF hat.elements[k].id = d THEN 0 ELSE bump)
             /\ hat'.size = hat.size + (n - 1) * bump]_vars

\* A draw from three elements of different weights that returned the first.
C17_Witness ==
    /\ hatLast.op = "draw" /\ hatLast.error = ""
    /\ Len(hat.elements) = 3
    /\ hatLast.ret = hat.elements[1].id
    /\ hat.elements[1].weight < hat.elements[2].weight

\* C18: after Hat.draw returned, the cumulativeWeight of every position is
\* the sum of the weights, as they are now, of the positions up to it.
C18_DrawPrefixSums ==
    [][(HatStep("draw") /\ hatLast'.error = "") =>
          \A k \in DOMAIN hat'.elements :
              hat'.elements[k].cumulativeWeight = SumWeights(hat'.elements, k)]_vars

\* A draw from three elements that returned the middle one.
C18_Witness ==
    /\ hatLast.op = "draw" /\ hatLast.error = ""
    /\ Len(hat.elements) = 3
    /\ hatLast.ret = hat.elements[2].id

\* C19: at every Hat.draw on a hat that holds an element, for every random
\* in [0, size) the binary search ends at the smallest position whose
\* cumulativeWeight is >= random (a position of the hat), every position is
\* the one found for some random, and the id returned is the id at the
\* position found for one of them.
C19_BinarySearch ==
    [][(HatStep("draw") /\ hat.elements # <<>>) =>
          LET n == Len(hat.elements)
              found == [r2 \in RandomPoints(hat) |->
                           BinarySearch(hat.elements, 0, n - 1, r2)]
          IN /\ \A r2 \in DOMAIN found :
                   /\ found[r2] \in 0 .. n - 1
                   /\ 2 * hat.elements[found[r2] + 1].cumulativeWeight >= r2
                   /\ \A q \in 0 .. found[r2] - 1 :
                         2 * hat.elements[q + 1].cumulativeWeight < r2
             /\ {found[r2] : r2 \in DOMAIN found} = 0 .. n - 1
             /\ hatLast'.error = ""
             /\ \E r2 \in DOMAIN found :
                   hatLast'.ret = hat.elements[found[r2] + 1].id]_vars

\* Three elements of three different weights, after a draw that returned
\* the last one.
C19_Witness ==
    /\ hatLast.op = "draw" /\ hatLast.error = ""
    /\ Len(hat.elements) = 3
    /\ hatLast.ret = hat.elements[3].id
    /\ Cardinality({hat.elements[k].weight : k \in 1 .. 3}) = 3

\* C20: Hat.draw on a hat of exactly one element, of any weight, returns
\* the id of that element and leaves size, the element (weight and
\* cumulativeWeight) and the index as they were.
C20_DrawSole ==
    [][(HatStep("draw") /\ Len(hat.elements) = 1) =>
          /\ hatLast'.error = ""
          /\ hatLast'.ret = hat.elements[1].id
          /\ hat' = hat]_vars

\* A draw from a single element of weight 9999.
C20_Witness ==
    /\ hatLast.op = "draw" /\ hatLast.error = ""
    /\ Len(hat.elements) = 1
    /\ hat.elements[1].weight = 9999
    /\ hatLast.ret = hat.elements[1].id

\* C21: choose(name) adds 1 to the frequency of the record of name and
\* leaves the other frequencies; the weights it leaves are those of the
\* records with the mean held before the call added to every record but the
\* one of name, normalized (as they are when none exceeds 9999); the mean it
\* leaves is round(sum of these weights / number of records).
C21_ChooseUpdates ==
    [][ChooseStep =>
          LET name == names[run.i + 1]
              recipient == run'.pairs[run.i + 1].recipient
              before == participants[name].stats
              after == participants'[name].stats
              bumped == [k \in DOMAIN before.recipients |->
                           [before.recipients[k] EXCEPT !.weight =
                               IF before.recipients[k].name = recipient THEN @
                               ELSE @ + before.meanRecipientWeight]]
              expected == IF \A k \in DOMAIN bumped : bumped[k].weight <= WeightCeiling
                          THEN bumped ELSE NormalizeWeights(bumped)
          IN /\ Len(after.recipients) = Len(before.recipients)
             /\ \E k \in DOMAIN before.recipients : before.recipients[k].name = recipient
             /\ \A k \in DOMAIN before.recipients :
                   /\ after.recipients[k].name = before.recipients[k].name
                   /\ after.recipients[k].frequency =
                          before.recipients[k].frequency
                              + (IF before.recipients[k].name = recipient THEN 1 ELSE 0)
                   /\ after.recipients[k].weight = expected[k].weight
             /\ after.meanRecipientWeight =
                    RoundDiv(SumWeights(after.recipients, Len(after.recipients)),
                             Len(after.recipients))]_vars

\* b, with a at weight 1 and c at weight 4 (mean round(5 / 2) = 3), chose
\* a: a stays 1 with frequency 2, c goes to 7, the mean to round(8 / 2) = 4.
C21_Witness ==
    /\ "b" \in DOMAIN participants
    /\ participants["b"].stats.previousRecipient = "a"
    /\ participants["b"].stats.meanRecipientWeight = 4
    /\ participants["b"].stats.recipients =
           << [name |-> "a", weight |-> 1, frequency |-> 2],
              [name |-> "c", weight |-> 7, frequency |-> 0] >>

\* The records of recipient in the statistics of the participant p.
RecordsOf(p, recipient) ==
    {k \in DOMAIN p.stats.recipients : p.stats.recipients[k].name = recipient}

\* Every element of the hat of p has exactly one record in the statistics
\* of p, and the weight of the record is the weight in the hat.
HatMatchesStats(p) ==
    \A e \in DOMAIN p.hat.elements :
        \E k \in DOMAIN p.stats.recipients :
            /\ RecordsOf(p, p.hat.elements[e].id) = {k}
            /\ p.stats.recipients[k].weight = p.hat.elements[e].weight

\* C22: addRecipient(name), as addParticipant(name) calls it on a
\* participant n of the group, leaves exactly one record of name in the
\* statistics of n, with the weight and frequency of the record n had of
\* name, or else the mean n held and frequency 0; and while no draw has
\* touched the hats, every name in a hat is there at the weight of its
\* record.
C22_AddRecipient ==
    /\ [][(ops' = ops + 1 /\ last'.op = "addParticipant" /\ last'.error = "") =>
             \A n \in DOMAIN participants :
                 LET name == last'.arg
                     before == participants[n]
                     after == participants'[n]
                 IN \E k \in DOMAIN after.stats.recipients :
                       /\ RecordsOf(after, name) = {k}
                       /\ IF RecordsOf(before, name) = {}
                          THEN /\ after.stats.recipients[k].weight =
                                      before.stats.meanRecipientWeight
                               /\ after.stats.recipients[k].frequency = 0
                          ELSE \A m \in RecordsOf(before, name) :
                                   /\ after.stats.recipients[k].weight =
                                          before.stats.recipients[m].weight
                                   /\ after.stats.recipients[k].frequency =
                                          before.stats.recipients[m].frequency]_vars
    /\ [](draws = 0 => \A n \in DOMAIN participants : HatMatchesStats(participants[n]))

\* a, rebuilt from its record, was given the new recipient c: b is in the
\* hat at its 9999 and c at its 1, the weights of their records.
C22_Witness ==
    /\ last.op = "addParticipant" /\ last.arg = "c" /\ last.error = ""
    /\ draws = 0
    /\ names = <<"a", "b", "c">>
    /\ participants["a"].hat.elements =
           << [id |-> "b", weight |-> 9999, cumulativeWeight |-> 9999],
              [id |-> "c", weight |-> 1, cumulativeWeight |-> 10000] >>

\* C23: in draw() the recipient of position i is the last name of the
\* queue, with the hat of queue[i] left as it was, exactly when i = n - 2
\* and no step before i chose the last name; otherwise the recipient and the
\* hat of queue[i] are the result of a draw from that hat.
C23_RingBreak ==
    [][ChooseStep =>
          LET i == run.i
              n == Len(names)
              name == names[i + 1]
              recipient == run'.pairs[i + 1].recipient
              forced == /\ i = n - 2
                        /\ \A k \in 1 .. i : run.pairs[k].recipient # names[n]
          IN IF forced
             THEN /\ recipient = names[n]
                  /\ participants'[name].hat = participants[name].hat
             ELSE \E r2 \in RandomPoints(participants[name].hat) :
                      LET d == HatDraw(participants[name].hat, r2)
                      IN recipient = d.id /\ participants'[name].hat = d.hat]_vars

\* Four names, the ring-break taken: position 2 was given the last name,
\* which no earlier position had chosen.
C23_Witness ==
    /\ DrawReturned /\ Len(names) = 4
    /\ run.pairs[3].recipient = names[4]
    /\ \A k \in 1 .. 2 : run.pairs[k].recipient # names[4]

\* C24: through one draw() on a newly built group, once steps 0 .. i are
\* done no hat of a position after i holds a recipient chosen so far and the
\* recipients chosen so far differ from each other; and step i leaves the
\* hats of the positions before i as they were.
C24_NoRepeatInDraw ==
    /\ [](last.op = "draw" =>
             /\ \A j \in run.i + 1 .. Len(names), k \in DOMAIN run.pairs :
                   ~HatHas(participants[names[j]].hat, run.pairs[k].recipient)
             /\ \A k, m \in DOMAIN run.pairs :
                   run.pairs[k].recipient = run.pairs[m].recipient => k = m)
    /\ [][ChooseStep =>
             \A k \in 1 .. run.i :
                 participants'[names[k]].hat = participants[names[k]].hat]_vars

\* Four names after step 1 of the draw: two recipients are chosen and two
\* positions are pending, each with a hat that still holds a name.
C24_Witness ==
    /\ pc = "drawing" /\ Len(names) = 4 /\ run.i = 2
    /\ \A j \in 3 .. 4 : participants[names[j]].hat.size > 0

\* C25: setState(toJSON()) after a draw() that returned keeps the names of
\* the group and leaves every hat holding exactly the other names, each at
\* the weight of its record; a draw() called right after it on two or more
\* names starts from such hats, and every draw() that starts from such hats
\* returns pairs that are a bijection on the names with no name paired with
\* itself.
C25_RebuildThenDraw ==
    /\ [][(SetStateStep /\ DrawReturned) =>
             /\ last'.error = ""
             /\ Range(names') = Range(names) /\ Len(names') = Len(names)
             /\ \A n \in DOMAIN participants' :
                   /\ DOMAIN participants'[n].hat.index = Range(names') \ {n}
                   /\ HatMatchesStats(participants'[n])]_vars
    /\ [][(last.op = "setState" /\ last.error = "" /\ last'.op = "draw") =>
             run'.full]_vars
    /\ [](last.op = "draw" /\ run.full /\ Len(names) >= 2 =>
             /\ last.error = ""
             /\ pc = "idle" => IsDerangement(run.pairs, names))

\* Three names on a fresh state, each of which has chosen twice: the first
\* draw() emptied hats, the one call that was not an addParticipant filled
\* them again, and the second draw() returned.
C25_Witness ==
    /\ DrawReturned /\ run.full /\ input = <<>>
    /\ Len(names) = 3 /\ draws = 2 /\ ops = 4
    /\ \A n \in DOMAIN participants :
          LET recs == participants[n].stats.recipients
          IN Len(recs) = 2 /\ recs[1].frequency + recs[2].frequency = 2

====
